---- MODULE Spec2Model ----
(***************************************************************************)
(* Model of src/src/render.cpp: the alpha compositor                        *)
(* apply_white_background, the PNG encoder write_png and the parallel       *)
(* dispatcher render() with its worker lambda.                              *)
(*                                                                          *)
(* The C++ double and float values are modelled bit-exactly: a binary       *)
(* floating point number is a record [b |-> bits, e |-> exponent], bits a   *)
(* sequence of 0/1 with the most significant bit first, standing for        *)
(* BitsVal(b) * 2^e.  Every arithmetic operation is computed exactly and    *)
(* then rounded to nearest-even to the mantissa width of its C++ type, as   *)
(* IEEE-754 arithmetic does (FLT_EVAL_METHOD 0, no contraction).            *)
(***************************************************************************)
EXTENDS Integers, Naturals, Sequences, FiniteSets, TLC

(***************************************************************************)
(* Binary floating point                                                    *)
(***************************************************************************)

\* mantissa width of the C++ type double (render.cpp:148-152)
DoubleBits == 53

\* mantissa width of the C++ type float (render.cpp:123-124)
FloatBits == 24

\* the arithmetic below works on groups of this many bits at a time, so that
\* every intermediate integer stays below 2^31
Chunk == 16

\* number of binary digits of a natural number below 2^30
BitLen(n) == Cardinality({k \in 0..29 : 2^k <= n})

\* the n low binary digits of v, most significant first
LowBits(v, n) == [k \in 1..n |-> (v \div 2^(n - k)) % 2]

\* binary digits of a natural number, most significant first (0 is <<>>)
IntBits(n) == LowBits(n, BitLen(n))

RECURSIVE BitsVal(_)
\* the natural number a bit sequence (of at most 30 bits) stands for
BitsVal(b) ==
  IF Len(b) = 0 THEN 0
  ELSE IF Len(b) = 1 THEN b[1]
  ELSE LET h == Len(b) \div 2
       IN  BitsVal(SubSeq(b, 1, h)) * 2^(Len(b) - h)
             + BitsVal(SubSeq(b, h + 1, Len(b)))

Zeros(n) == [k \in 1..n |-> 0]

\* drop leading zero bits
Strip(b) ==
  IF \A k \in 1..Len(b) : b[k] = 0 THEN <<>>
  ELSE LET f == CHOOSE k \in 1..Len(b) :
                  b[k] = 1 /\ \A m \in 1..(k - 1) : b[m] = 0
       IN  SubSeq(b, f, Len(b))

\* add one to a bit sequence: the carry ripples up to the last zero bit
Inc(b) ==
  IF \A k \in 1..Len(b) : b[k] = 1 THEN <<1>> \o Zeros(Len(b))
  ELSE LET z == CHOOSE k \in 1..Len(b) :
                  b[k] = 0 /\ \A m \in (k + 1)..Len(b) : b[m] = 1
       IN  SubSeq(b, 1, z - 1) \o <<1>> \o Zeros(Len(b) - z)

\* round an exact value to p significant bits, ties to even
RoundTo(p, x) ==
  LET b == Strip(x.b)
      n == Len(b)
  IN  IF n = 0 THEN [b |-> <<>>, e |-> 0]
      ELSE IF n <= p THEN [b |-> b \o Zeros(p - n), e |-> x.e - (p - n)]
      ELSE LET top    == SubSeq(b, 1, p)
               guard  == b[p + 1]
               sticky == \E k \in (p + 2)..n : b[k] = 1
               up     == guard = 1 /\ (sticky \/ top[p] = 1)
               r      == IF up THEN Inc(top) ELSE top
           IN  IF Len(r) > p
               THEN [b |-> SubSeq(r, 1, p), e |-> x.e + (n - p) + 1]
               ELSE [b |-> r, e |-> x.e + (n - p)]

\* conversion of an integer to floating point (exact for the values used)
FromInt(n) == [b |-> IntBits(n), e |-> 0]

RECURSIVE QuotBits(_, _, _)
\* k groups of binary digits of the fraction r/d (r < d), then one sticky
\* digit that is 1 iff the digits after them are not all zero
QuotBits(r, d, k) ==
  IF k = 0 THEN <<IF r > 0 THEN 1 ELSE 0>>
  ELSE LowBits((r * 2^Chunk) \div d, Chunk)
         \o QuotBits((r * 2^Chunk) % d, d, k - 1)

\* the quotient c / d of two integer-valued floating point numbers, rounded
\* to p bits
FDiv(p, c, d) ==
  LET k == (p \div Chunk) + 2
  IN  RoundTo(p, [b |-> IntBits(c \div d) \o QuotBits(c % d, d, k),
                  e |-> 0 - (k * Chunk + 1)])

RECURSIVE MulBits(_, _, _)
\* bits times the natural number n, from the last group up with a carry
MulBits(b, n, carry) ==
  IF Len(b) = 0 THEN IntBits(carry)
  ELSE LET w == IF Len(b) < Chunk THEN Len(b) ELSE Chunk
           v == n * BitsVal(SubSeq(b, Len(b) - w + 1, Len(b))) + carry
       IN  MulBits(SubSeq(b, 1, Len(b) - w), n, v \div 2^w)
             \o LowBits(v % 2^w, w)

\* exact product of the integer n and the floating point number x
MulExact(n, x) == [b |-> Strip(MulBits(x.b, n, 0)), e |-> x.e]

\* the product n * x rounded to p bits
FMul(p, n, x) == RoundTo(p, MulExact(n, x))

RECURSIVE AddBits(_, _, _)
\* sum of two bit sequences of equal length
AddBits(a, b, carry) ==
  IF Len(a) = 0 THEN IntBits(carry)
  ELSE LET n == Len(a)
           w == IF n < Chunk THEN n ELSE Chunk
           v == BitsVal(SubSeq(a, n - w + 1, n))
                  + BitsVal(SubSeq(b, n - w + 1, n)) + carry
       IN  AddBits(SubSeq(a, 1, n - w), SubSeq(b, 1, n - w), v \div 2^w)
             \o LowBits(v % 2^w, w)

RECURSIVE SubBits(_, _, _)
\* difference a - b of two bit sequences of equal length, a >= b
SubBits(a, b, borrow) ==
  IF Len(a) = 0 THEN <<>>
  ELSE LET n == Len(a)
           w == IF n < Chunk THEN n ELSE Chunk
           v == BitsVal(SubSeq(a, n - w + 1, n))
                  - BitsVal(SubSeq(b, n - w + 1, n)) - borrow
       IN  SubBits(SubSeq(a, 1, n - w), SubSeq(b, 1, n - w),
                   IF v < 0 THEN 1 ELSE 0)
             \o LowBits(IF v < 0 THEN v + 2^w ELSE v, w)

\* the bits of x written at exponent e <= x.e and padded to n bits
Aligned(x, e, n) ==
  LET b == x.b \o Zeros(x.e - e)
  IN  Zeros(n - Len(b)) \o b

MinExp(x, y) ==
  IF x.b = <<>> THEN y.e ELSE IF y.b = <<>> THEN x.e
  ELSE IF x.e < y.e THEN x.e ELSE y.e

AlignedLen(x, y) ==
  LET e  == MinExp(x, y)
      lx == IF x.b = <<>> THEN 0 ELSE Len(x.b) + (x.e - e)
      ly == IF y.b = <<>> THEN 0 ELSE Len(y.b) + (y.e - e)
  IN  IF lx < ly THEN ly ELSE lx

\* the sum x + y rounded to p bits
FAdd(p, x, y) ==
  LET e == MinExp(x, y)
      n == AlignedLen(x, y)
      a == IF x.b = <<>> THEN Zeros(n) ELSE Aligned(x, e, n)
      c == IF y.b = <<>> THEN Zeros(n) ELSE Aligned(y, e, n)
  IN  RoundTo(p, [b |-> AddBits(a, c, 0), e |-> e])

\* the difference x - y (x >= y) rounded to p bits
FSub(p, x, y) ==
  LET e == MinExp(x, y)
      n == AlignedLen(x, y)
      a == IF x.b = <<>> THEN Zeros(n) ELSE Aligned(x, e, n)
      c == IF y.b = <<>> THEN Zeros(n) ELSE Aligned(y, e, n)
  IN  RoundTo(p, [b |-> SubBits(a, c, 0), e |-> e])

\* integer part of a non-negative floating point number
Trunc(x) ==
  IF x.e >= 0 THEN BitsVal(x.b) * 2^(x.e)
  ELSE IF Len(x.b) + x.e <= 0 THEN 0
  ELSE BitsVal(SubSeq(x.b, 1, Len(x.b) + x.e))

\* the fraction bits of x, most significant first
FracBits(x) ==
  IF x.e >= 0 THEN <<>>
  ELSE IF Len(x.b) + x.e <= 0 THEN Zeros(0 - (Len(x.b) + x.e)) \o x.b
  ELSE SubSeq(x.b, Len(x.b) + x.e + 1, Len(x.b))

HasFrac(x) == \E k \in 1..Len(FracBits(x)) : FracBits(x)[k] = 1

\* the comparison `j < x` of an integer (converted exactly) with x
IntLess(j, x) == j < Trunc(x) \/ (j = Trunc(x) /\ HasFrac(x))

\* C round(): nearest integer, halves away from zero
Round(x) ==
  Trunc(x) + (IF FracBits(x) # <<>> /\ FracBits(x)[1] = 1 THEN 1 ELSE 0)

\* smallest integer not below x
Ceil(x) == Trunc(x) + (IF HasFrac(x) THEN 1 ELSE 0)

(***************************************************************************)
(* Bounds                                                                   *)
(***************************************************************************)

\* largest source frame count of an animation
MaxFrames == 7

\* source and output frame rates are 1..MaxRate and 25
MaxRate == 2

\* largest threads_count argument
MaxThreads == 2

\* largest value std::thread::hardware_concurrency() reports
MaxHw == 2

\* number of threads of the process that call render()
MaxCallers == 2

\* most calls of render() they make in all
MaxCalls == 3

\* conversions that would produce more output frames are left out
MaxOut == 8

\* the same for conversions run by two workers; two frames less for each
\* further worker
MaxParOut == 3

\* the same for conversions whose worker count comes from the host
MaxHwOut == 2

Max(a, b) == IF a < b THEN b ELSE a

Rates == (1..MaxRate) \cup {25}

\* what loadFromData makes of the animation source: not decodable, or an
\* animation with its totalFrame() and frameRate()
Animations ==
  {[ok |-> FALSE, frames |-> 0, rate |-> 0]}
    \cup [ok : {TRUE}, frames : 1..MaxFrames, rate : Rates]

Workers == 0..(Max(MaxThreads, MaxHw) - 1)

\* the threads of the process that call render()
Callers == 1..MaxCallers

(***************************************************************************)
(* Frame sampling, render.cpp:147-152 and 163-165                           *)
(***************************************************************************)

\* `if (fps == 0.0) fps = player_fps;`
EffectiveFps(fps_arg, rate) == IF fps_arg = 0 THEN rate ELSE fps_arg

\* `duration = player_frame_count / (double)player_fps`
Duration(frames, rate) == FDiv(DoubleBits, frames, rate)

\* `step = player_fps / fps`
Step(rate, f) == FDiv(DoubleBits, rate, f)

\* `output_frame_count = fps * duration`
OutputFrameCount(f, dur) == FMul(DoubleBits, f, dur)

\* a loop condition that first converts the count to an integer
LoopConditionTruncated(jj, ofc) == jj < Trunc(ofc)

\* the loop condition `j < output_frame_count`
LoopCondition(jj, ofc) == IntLess(jj, ofc)

\* the frame number handed to renderSync: `round(j * step)`
SourceFrame(jj, st) == Round(FMul(DoubleBits, jj, st))

\* every worker starting at index 0
FirstIndexZero(w) == 0

\* the worker's first index `size_t j = i`
FirstIndex(w) == w

\* a loop that goes on to the next index whatever the worker count
NextIndexByOne(jj, tc) == jj + 1

\* the loop increment `j += threads_count`
NextIndex(jj, tc) == jj + tc

\* number of indices the loop condition admits
FrameTotal(ofc) == Ceil(ofc)

\* a resolution that does not ask the host
ResolveThreadsAsPassed(tc, hw) == tc

\* `threads_count = std::thread::hardware_concurrency()` when 0 was passed
ResolveThreads(tc, hw) == IF tc = 0 THEN hw ELSE tc

\* sprintf(file_name, "%03zu.png", j): the decimal digits of j, zero-padded
\* to three
FileName(jj) ==
  IF jj < 1000 THEN <<(jj \div 100) % 10, (jj \div 10) % 10, jj % 10>>
  ELSE <<jj \div 1000, (jj \div 100) % 10, (jj \div 10) % 10, jj % 10>>

FileNames == {FileName(jj) : jj \in 0..MaxOut}

\* `char file_name[8]`
FileNameSize == 8

DigitChars == <<"0", "1", "2", "3", "4", "5", "6", "7", "8", "9">>

\* the characters sprintf(file_name, "%03zu.png", j) writes before the
\* terminating zero byte
SprintfName(jj) ==
  [k \in 1..Len(FileName(jj)) |-> DigitChars[FileName(jj)[k] + 1]]
    \o <<".", "p", "n", "g">>

\* the characters and the terminating byte are within the array
Fits(text) == Len(text) + 1 <= FileNameSize

\* std::to_string of an unsigned int: its decimal digits
RECURSIVE to_string(_)
to_string(n) ==
  IF n < 10 THEN <<DigitChars[n + 1]>>
  ELSE to_string(n \div 10) \o <<DigitChars[(n % 10) + 1]>>

NoFile == [state |-> "absent", opens |-> 0, by |-> {}, frame |-> -1,
           comp |-> FALSE]

NoBuffer == [frame |-> -1, comp |-> FALSE]

Zero == [b |-> <<>>, e |-> 0]

(***************************************************************************)
(* apply_white_background, render.cpp:106-132                               *)
(***************************************************************************)

\* lp_COLOR_BYTES
ColorBytes == 4

\* a blend that leaves out the white background term
BlendChannelNoWhite(c, a) ==
  Trunc(FMul(FloatBits, c, FDiv(FloatBits, a, 255)))

\* lines 123-128: `(unsigned char)(c * alpha_f + 255 * inv_alpha)` with
\* alpha_f = a / 255.0f and inv_alpha = 1.0f - alpha_f, in float arithmetic
BlendChannel(c, a) ==
  LET alpha_f   == FDiv(FloatBits, a, 255)
      inv_alpha == FSub(FloatBits, FromInt(1), alpha_f)
  IN  Trunc(FAdd(FloatBits, FMul(FloatBits, c, alpha_f),
                 FMul(FloatBits, 255, inv_alpha)))

\* a loop body that blends but leaves the alpha byte of a semi-transparent
\* pixel as it was
CompositePixelKeepAlpha(px) ==
  IF px[4] = 0 THEN <<255, 255, 255, 255>>
  ELSE IF px[4] # 255
  THEN <<BlendChannel(px[1], px[4]), BlendChannel(px[2], px[4]),
         BlendChannel(px[3], px[4]), px[4]>>
  ELSE px

\* lines 110-130: the loop body on one pixel <<r, g, b, a>>
CompositePixel(px) ==
  IF px[4] = 0 THEN <<255, 255, 255, 255>>
  ELSE IF px[4] # 255
  THEN <<BlendChannel(px[1], px[4]), BlendChannel(px[2], px[4]),
         BlendChannel(px[3], px[4]), 255>>
  ELSE px

RECURSIVE CompositePixels(_, _)
\* lines 109-131: the loop, over the first n pixels of the memory at buffer
CompositePixels(mem, n) ==
  IF n = 0 THEN <<>>
  ELSE CompositePixels(mem, n - 1)
         \o CompositePixel(SubSeq(mem, ColorBytes * (n - 1) + 1,
                                  ColorBytes * n))

\* lines 106-132: the loop runs over total_bytes = width * height * 4 bytes;
\* the memory after them is not accessed
apply_white_background(mem, width, height) ==
  LET total_bytes == width * height * ColorBytes
  IN  CompositePixels(mem, width * height)
        \o SubSeq(mem, total_bytes + 1, Len(mem))

(***************************************************************************)
(* write_png, render.cpp:44-95: the pixels handed to the image library      *)
(***************************************************************************)

\* a re-packing that drops the first byte of a pixel instead of the last
RepackPixelDropFirst(px) == <<px[2], px[3], px[4]>>

\* lines 50-73: the three bytes stored in rgb_buffer for the pixel
\* <<r, g, b, a>>
RepackPixel(px) ==
  IF px[4] = 0 THEN <<255, 255, 255>>
  ELSE IF px[4] = 255 THEN <<px[1], px[2], px[3]>>
  ELSE <<BlendChannel(px[1], px[4]), BlendChannel(px[2], px[4]),
         BlendChannel(px[3], px[4])>>

RECURSIVE RepackPixels(_, _)
\* lines 45-76: rgb_buffer after the loop over the first n pixels of the
\* memory at buffer
RepackPixels(mem, n) ==
  IF n = 0 THEN <<>>
  ELSE RepackPixels(mem, n - 1)
         \o RepackPixel(SubSeq(mem, ColorBytes * (n - 1) + 1,
                               ColorBytes * n))

\* lines 86-88: row_pointers[y] = rgb_buffer + width * y * 3, as offsets
\* into rgb_buffer (row y of the code is element y + 1)
RowPointers(width, height) == [y \in 1..height |-> width * (y - 1) * 3]

RECURSIVE BgrTransform(_)
\* line 95, PNG_TRANSFORM_BGR: the library swaps the first and the third
\* byte of every pixel of a row before storing it
BgrTransform(row) ==
  IF Len(row) < 3 THEN <<>>
  ELSE <<row[3], row[2], row[1]>> \o BgrTransform(SubSeq(row, 4, Len(row)))

\* what png_write_png stores: row y is the 3 * width bytes at
\* row_pointers[y], transformed
StoredRows(rgb, rows, width) ==
  [y \in DOMAIN rows |->
     BgrTransform(SubSeq(rgb, rows[y] + 1, rows[y] + 3 * width))]

\* largest number of pixels of a buffer
MaxPixels == 2

\* number of byte values sampled between 0 and 255
MaxLevels == 7

\* bytes of memory that follow the buffer
MaxSlack == 1

\* number of times the compositor is applied to a buffer
MaxApply == 2

ByteSamples ==
  {0, 255} \cup {(k * 255) \div (MaxLevels + 1) : k \in 1..MaxLevels}

\* the pixels one pixel of a buffer ranges over: a colour made of one
\* sampled byte, and a sampled alpha
PixelSamples ==
  {<<c, 255 - c, (3 * c) % 256, a>> : c \in ByteSamples, a \in ByteSamples}

\* the pixels the other pixels of a buffer range over: a transparent, a
\* semi-transparent and an opaque one
BasePixels == {<<10, 20, 30, 0>>, <<200, 100, 0, 128>>, <<1, 2, 3, 255>>}

RECURSIVE PixelRows(_, _)
\* all memories of n pixels, pixel q sampled widely and the others from the
\* base pixels
PixelRows(n, q) ==
  IF n = 0 THEN {<<>>}
  ELSE {m \o px : m \in PixelRows(n - 1, q),
                  px \in IF n = q THEN PixelSamples ELSE BasePixels}

\* the memory after the buffer
Slack == [k \in 1..MaxSlack |-> (85 * k) % 256]

(***************************************************************************)
(* State of one process calling render()                                    *)
(***************************************************************************)
VARIABLES
  pc,                 \* where the thread calling render() is
  cache_counter,      \* the static counter of render()
  lottie_data,        \* the animation source (what loading it yields)
  fps,                \* the fps parameter (reassigned at line 149)
  threads_count,      \* the threads_count parameter (reassigned at line 155)
  step,               \* const double step
  output_frame_count, \* const double output_frame_count
  i,                  \* the loop variable of the launching loop
  threads,            \* the vector of std::thread: -1 is a thread object
                      \* that runs nothing, w >= 0 the thread running the
                      \* lambda with i = w
  jn,                 \* position of the joining loop in threads
  wpc,                \* where each worker is
  j,                  \* the loop variable j of each worker
  local_player,       \* each worker's animation handle
  buffer,             \* each worker's pixel buffer: the source frame it
                      \* holds (-1: none) and whether it was composited
  files,              \* the output directory, by file name
  hardware_concurrency, \* what std::thread::hardware_concurrency() returned
                      \* at line 155 (-1: it was not called)
  file_name,          \* each worker's `char file_name[8]`: the characters
                      \* sprintf wrote, without the terminating byte
  out_file,           \* each worker's `FILE* out_file` in write_png
  cbuf,               \* apply_white_background called on its own: the
                      \* memory at buffer and after it
  cwidth,             \* its width argument
  cheight,            \* its height argument
  chist,              \* the contents cbuf had before each call so far
  rgb_buffer,         \* write_png called on cbuf: its rgb_buffer
  row_pointers,       \* its row_pointers, as offsets into rgb_buffer
  png_rows,           \* the rows of the image it stored
  caller_pc,          \* threads that call render(): where each one is
  reg,                \* the value of cache_counter each one works on
  cache_counter_str,  \* each one's `const auto cache_counter_str`
  calls,              \* how many calls of render() each one has finished
  launched,           \* how many workers its present call has launched
  loads               \* the calls of loadFromData so far: by which call of
                      \* which thread, for the probe or for which worker,
                      \* and with which cache key

compVars == <<cbuf, cwidth, cheight, chist, rgb_buffer, row_pointers,
              png_rows>>

\* the variables the later part of render() and write_png work on
ioVars == <<hardware_concurrency, file_name, out_file>>

renderVars == <<pc, cache_counter, lottie_data, fps, threads_count, step,
                output_frame_count, i, threads, jn, wpc, j, local_player,
                buffer, files, ioVars>>

\* the variables of the threads that call render()
callVars == <<caller_pc, reg, cache_counter_str, calls, launched, loads>>

vars == <<renderVars, compVars, callVars>>

mainVars == <<pc, cache_counter, lottie_data, fps, threads_count, step,
              output_frame_count, i, threads, jn>>

RenderInit ==
  /\ pc = "Idle"
  /\ cache_counter = 0
  /\ lottie_data = [ok |-> FALSE, frames |-> 0, rate |-> 0]
  /\ fps = 0
  /\ threads_count = 0
  /\ step = Zero
  /\ output_frame_count = Zero
  /\ i = 0
  /\ threads = <<>>
  /\ jn = 1
  /\ wpc = [w \in Workers |-> "none"]
  /\ j = [w \in Workers |-> 0]
  /\ local_player = [w \in Workers |-> "none"]
  /\ buffer = [w \in Workers |-> NoBuffer]
  /\ files = [n \in FileNames |-> NoFile]
  /\ hardware_concurrency = -1
  /\ file_name = [w \in Workers |-> <<>>]
  /\ out_file = [w \in Workers |-> "none"]

\* no thread is in render()
CallersInit ==
  /\ caller_pc = [c \in Callers |-> "idle"]
  /\ reg = [c \in Callers |-> 0]
  /\ cache_counter_str = [c \in Callers |-> <<>>]
  /\ calls = [c \in Callers |-> 0]
  /\ launched = [c \in Callers |-> 0]
  /\ loads = {}

Init ==
  /\ RenderInit
  /\ CallersInit
  /\ cbuf = <<>>
  /\ cwidth = 0
  /\ cheight = 0
  /\ chist = <<>>
  /\ rgb_buffer = <<>>
  /\ row_pointers = <<>>
  /\ png_rows = <<>>

\* the process has not been killed
Alive == pc \notin {"Terminated", "Crashed"}

\* most output frames of a conversion run by tc workers
OutBound(tc) == IF tc > 1 THEN MaxParOut + 4 - 2 * tc ELSE MaxOut

\* number of output frames the conversion of animation a at rate f has
Frames(a, f) ==
  FrameTotal(OutputFrameCount(EffectiveFps(f, a.rate),
                              Duration(a.frames, a.rate)))

\* render() is entered: lines 142-144, the counter is incremented and the
\* animation is loaded (the unsigned counter wraps at 2^32, far beyond the
\* number of calls of a run of this model)
Call(a, f, tc) ==
  /\ pc = "Idle"
  /\ a.ok => Frames(a, f) <= OutBound(tc)
  /\ pc' = "Probing"
  /\ cache_counter' = cache_counter + 1
  /\ lottie_data' = a
  /\ fps' = f
  /\ threads_count' = tc
  /\ UNCHANGED <<step, output_frame_count, i, threads, jn, wpc, j,
                 local_player, buffer, files>>
  /\ UNCHANGED ioVars
  /\ UNCHANGED compVars
  /\ UNCHANGED callVars

\* render() without the check of line 145: a failed load goes on to the
\* launching loop
ProbeFailedUnchecked ==
  /\ pc = "Probing"
  /\ ~lottie_data.ok
  /\ pc' = "Dispatching"
  /\ threads' = [k \in 1..threads_count |-> -1]
  /\ i' = 0
  /\ UNCHANGED <<cache_counter, lottie_data, fps, threads_count, step,
                 output_frame_count, jn, wpc, j, local_player, buffer, files>>
  /\ UNCHANGED ioVars
  /\ UNCHANGED compVars
  /\ UNCHANGED callVars

\* line 145: `if (!player) throw std::runtime_error(...)`
ProbeFailed ==
  /\ pc = "Probing"
  /\ ~lottie_data.ok
  /\ pc' = "Aborted"
  /\ UNCHANGED <<cache_counter, lottie_data, fps, threads_count, step,
                 output_frame_count, i, threads, jn, wpc, j, local_player,
                 buffer, files>>
  /\ UNCHANGED ioVars
  /\ UNCHANGED compVars
  /\ UNCHANGED callVars

\* lines 147-157: the frame parameters, the thread count, the vector of
\* threads_count thread objects
ProbeLoaded(hw) ==
  /\ pc = "Probing"
  /\ lottie_data.ok
  /\ Frames(lottie_data, fps) <= OutBound(ResolveThreads(threads_count, hw))
  /\ threads_count = 0 => Frames(lottie_data, fps) <= MaxHwOut
  /\ LET f == EffectiveFps(fps, lottie_data.rate)
         n == ResolveThreads(threads_count, hw)
     IN  /\ fps' = f
         /\ step' = Step(lottie_data.rate, f)
         /\ output_frame_count' =
              OutputFrameCount(f, Duration(lottie_data.frames,
                                           lottie_data.rate))
         /\ threads_count' = n
         /\ threads' = [k \in 1..n |-> -1]
  /\ i' = 0
  /\ pc' = "Dispatching"
  /\ hardware_concurrency' = IF threads_count = 0 THEN hw ELSE -1
  /\ UNCHANGED <<cache_counter, lottie_data, jn, wpc, j, local_player,
                 buffer, files, file_name, out_file>>
  /\ UNCHANGED compVars
  /\ UNCHANGED callVars

\* lines 158-159: one more thread is pushed onto the vector and started
Launch ==
  /\ pc = "Dispatching"
  /\ i < threads_count
  /\ threads' = Append(threads, i)
  /\ wpc' = [wpc EXCEPT ![i] = "load"]
  /\ i' = i + 1
  /\ UNCHANGED <<pc, cache_counter, lottie_data, fps, threads_count, step,
                 output_frame_count, jn, j, local_player, buffer, files>>
  /\ UNCHANGED ioVars
  /\ UNCHANGED compVars
  /\ UNCHANGED callVars

\* `thread.joinable()`
Joinable(t) == t # -1

\* lines 182-183: the joining loop passes over the elements that are not
\* joinable; from position k it stops at the first joinable element, or
\* past the end of the vector
NextJoinable(ts, k) ==
  IF \E n \in k..Len(ts) : Joinable(ts[n])
  THEN CHOOSE n \in k..Len(ts) :
         Joinable(ts[n]) /\ \A m \in k..(n - 1) : ~Joinable(ts[m])
  ELSE Len(ts) + 1

\* line 158: the launching loop ends, and the joining loop starts
Launched ==
  /\ pc = "Dispatching"
  /\ ~(i < threads_count)
  /\ pc' = "Running"
  /\ jn' = NextJoinable(threads, 1)
  /\ UNCHANGED <<cache_counter, lottie_data, fps, threads_count, step,
                 output_frame_count, i, threads, wpc, j, local_player,
                 buffer, files>>
  /\ UNCHANGED ioVars
  /\ UNCHANGED compVars
  /\ UNCHANGED callVars

\* a join that returns whether or not the thread's function has returned
JoinWithoutWaiting ==
  /\ pc = "Running"
  /\ jn <= Len(threads)
  /\ jn' = NextJoinable(threads, jn + 1)
  /\ UNCHANGED <<pc, cache_counter, lottie_data, fps, threads_count, step,
                 output_frame_count, i, threads, wpc, j, local_player,
                 buffer, files>>
  /\ UNCHANGED ioVars
  /\ UNCHANGED compVars
  /\ UNCHANGED callVars

\* lines 182-186: a joinable element is joined; join() returns once the
\* thread's function has returned
Join ==
  /\ pc = "Running"
  /\ jn <= Len(threads)
  /\ wpc[threads[jn]] = "done"
  /\ jn' = NextJoinable(threads, jn + 1)
  /\ UNCHANGED <<pc, cache_counter, lottie_data, fps, threads_count, step,
                 output_frame_count, i, threads, wpc, j, local_player,
                 buffer, files>>
  /\ UNCHANGED ioVars
  /\ UNCHANGED compVars
  /\ UNCHANGED callVars

\* line 182: the joining loop ends
JoinedAll ==
  /\ pc = "Running"
  /\ jn > Len(threads)
  /\ pc' = "Joined"
  /\ UNCHANGED <<cache_counter, lottie_data, fps, threads_count, step,
                 output_frame_count, i, threads, jn, wpc, j, local_player,
                 buffer, files>>
  /\ UNCHANGED ioVars
  /\ UNCHANGED compVars
  /\ UNCHANGED callVars

\* line 187: render() returns normally
Return ==
  /\ pc = "Joined"
  /\ pc' = "Done"
  /\ UNCHANGED <<cache_counter, lottie_data, fps, threads_count, step,
                 output_frame_count, i, threads, jn, wpc, j, local_player,
                 buffer, files>>
  /\ UNCHANGED ioVars
  /\ UNCHANGED compVars
  /\ UNCHANGED callVars

(***************************************************************************)
(* The worker lambda, lines 159-179                                         *)
(***************************************************************************)

\* where a worker goes when its loop variable is jj: into the loop body, or
\* past the loop (delete[] buffer, return)
LoopEntry(jj) ==
  IF LoopCondition(jj, output_frame_count) THEN "render" ELSE "done"

\* lines 160-163: the worker loads its own handle (the load may fail and
\* give a null handle), allocates its buffer and starts its loop
WorkerLoad(w, loaded) ==
  /\ Alive
  /\ wpc[w] = "load"
  /\ local_player' = [local_player EXCEPT
                        ![w] = IF loaded THEN "ok" ELSE "null"]
  /\ buffer' = [buffer EXCEPT ![w] = NoBuffer]
  /\ j' = [j EXCEPT ![w] = FirstIndex(w)]
  /\ wpc' = [wpc EXCEPT ![w] = LoopEntry(FirstIndex(w))]
  /\ UNCHANGED <<mainVars, files>>
  /\ UNCHANGED ioVars
  /\ UNCHANGED compVars
  /\ UNCHANGED callVars

\* lines 164-165: renderSync(round(j * step), surface)
WorkerRender(w) ==
  /\ Alive
  /\ wpc[w] = "render"
  /\ local_player[w] = "ok"
  /\ buffer' = [buffer EXCEPT
                  ![w] = [frame |-> SourceFrame(j[w], step), comp |-> FALSE]]
  /\ wpc' = [wpc EXCEPT ![w] = "composite"]
  /\ UNCHANGED <<mainVars, j, local_player, files>>
  /\ UNCHANGED ioVars
  /\ UNCHANGED compVars
  /\ UNCHANGED callVars

\* line 165 with a null handle: undefined behaviour.  `local_player->` on a
\* null std::unique_ptr either trips the library's assertion, which aborts
\* the process, or calls renderSync on a null object, whose first access
\* to it is an invalid read that kills the process
WorkerRenderNull(w, asserted) ==
  /\ Alive
  /\ wpc[w] = "render"
  /\ local_player[w] = "null"
  /\ pc' = IF asserted THEN "Terminated" ELSE "Crashed"
  /\ UNCHANGED <<cache_counter, lottie_data, fps, threads_count, step,
                 output_frame_count, i, threads, jn, wpc, j, local_player,
                 buffer, files>>
  /\ UNCHANGED ioVars
  /\ UNCHANGED compVars
  /\ UNCHANGED callVars

\* a loop body that goes from renderSync to write_png without calling
\* apply_white_background
WorkerCompositeSkipped(w) ==
  /\ Alive
  /\ wpc[w] = "composite"
  /\ wpc' = [wpc EXCEPT ![w] = "encode"]
  /\ UNCHANGED <<mainVars, j, local_player, buffer, files>>
  /\ UNCHANGED ioVars
  /\ UNCHANGED compVars
  /\ UNCHANGED callVars

\* line 168: apply_white_background on the worker's buffer
WorkerComposite(w) ==
  /\ Alive
  /\ wpc[w] = "composite"
  /\ buffer' = [buffer EXCEPT ![w].comp = TRUE]
  /\ wpc' = [wpc EXCEPT ![w] = "encode"]
  /\ UNCHANGED <<mainVars, j, local_player, files>>
  /\ UNCHANGED ioVars
  /\ UNCHANGED compVars
  /\ UNCHANGED callVars

\* lines 170-176 and write_png lines 12-91: the file name is formatted,
\* the png structures are made, the pixels repacked and the file opened
\* with "wb", which creates or truncates it
WorkerEncodeOpen(w) ==
  /\ Alive
  /\ wpc[w] = "encode"
  /\ Fits(SprintfName(j[w]))
  /\ file_name' = [file_name EXCEPT ![w] = SprintfName(j[w])]
  /\ files' = [files EXCEPT
                 ![FileName(j[w])] =
                    [state |-> "open", opens |-> @.opens + 1,
                     by |-> @.by \cup {w}, frame |-> -1, comp |-> FALSE]]
  /\ out_file' = [out_file EXCEPT ![w] = "open"]
  /\ wpc' = [wpc EXCEPT ![w] = "write"]
  /\ UNCHANGED <<mainVars, j, local_player, buffer, hardware_concurrency>>
  /\ UNCHANGED compVars
  /\ UNCHANGED callVars

\* write_png lines 15-24 and 78-83: a png structure or the row pointers can
\* not be made and write_png throws std::runtime_error.  Nothing in the
\* lambda catches it: the exception leaves the thread's function and
\* std::terminate ends the process
WorkerEncodeThrow(w) ==
  /\ Alive
  /\ wpc[w] = "encode"
  /\ Fits(SprintfName(j[w]))
  /\ file_name' = [file_name EXCEPT ![w] = SprintfName(j[w])]
  /\ wpc' = [wpc EXCEPT ![w] = "threw"]
  /\ pc' = "Terminated"
  /\ UNCHANGED <<cache_counter, lottie_data, fps, threads_count, step,
                 output_frame_count, i, threads, jn, j, local_player, buffer,
                 files, hardware_concurrency, out_file>>
  /\ UNCHANGED compVars
  /\ UNCHANGED callVars

\* write_png lines 91-93: fopen returns null (the file can not be created)
\* and the result is not looked at: the null FILE* is handed to png_init_io
\* and write_png goes on to png_write_png
WorkerEncodeOpenFails(w) ==
  /\ Alive
  /\ wpc[w] = "encode"
  /\ Fits(SprintfName(j[w]))
  /\ file_name' = [file_name EXCEPT ![w] = SprintfName(j[w])]
  /\ out_file' = [out_file EXCEPT ![w] = "null"]
  /\ wpc' = [wpc EXCEPT ![w] = "write"]
  /\ UNCHANGED <<mainVars, j, local_player, buffer, files,
                 hardware_concurrency>>
  /\ UNCHANGED compVars
  /\ UNCHANGED callVars

\* write_png line 95 with a null FILE*: undefined behaviour.  The write
\* through the null stream kills the process, or it fails and libpng
\* reports the error by longjmp, which line 28 turns into an exception
\* that nothing catches
WorkerWriteNull(w, killed) ==
  /\ Alive
  /\ wpc[w] = "write"
  /\ out_file[w] = "null"
  /\ IF killed
     THEN /\ pc' = "Crashed"
          /\ wpc' = wpc
     ELSE /\ pc' = "Terminated"
          /\ wpc' = [wpc EXCEPT ![w] = "threw"]
  /\ UNCHANGED <<cache_counter, lottie_data, fps, threads_count, step,
                 output_frame_count, i, threads, jn, j, local_player, buffer,
                 files>>
  /\ UNCHANGED ioVars
  /\ UNCHANGED compVars
  /\ UNCHANGED callVars

\* write_png lines 95-101 and line 163: the image is written and the file
\* closed; the worker goes on to its next index
WorkerWrite(w) ==
  /\ Alive
  /\ wpc[w] = "write"
  /\ out_file[w] = "open"
  /\ files' = [files EXCEPT
                 ![FileName(j[w])] =
                    [@ EXCEPT !.state = "complete",
                              !.frame = buffer[w].frame,
                              !.comp = buffer[w].comp]]
  /\ j' = [j EXCEPT ![w] = NextIndex(j[w], threads_count)]
  /\ wpc' = [wpc EXCEPT ![w] = LoopEntry(NextIndex(j[w], threads_count))]
  /\ out_file' = [out_file EXCEPT ![w] = "none"]
  /\ UNCHANGED <<mainVars, local_player, buffer, hardware_concurrency,
                 file_name>>
  /\ UNCHANGED compVars
  /\ UNCHANGED callVars

\* write_png lines 26-29: libpng reports an error while writing (longjmp),
\* write_png throws and the process is terminated; the file stays as it is
WorkerWriteError(w) ==
  /\ Alive
  /\ wpc[w] = "write"
  /\ out_file[w] = "open"
  /\ wpc' = [wpc EXCEPT ![w] = "threw"]
  /\ pc' = "Terminated"
  /\ UNCHANGED <<cache_counter, lottie_data, fps, threads_count, step,
                 output_frame_count, i, threads, jn, j, local_player, buffer,
                 files>>
  /\ UNCHANGED ioVars
  /\ UNCHANGED compVars
  /\ UNCHANGED callVars

Next ==
  \/ \E a \in Animations, f \in {0} \cup Rates, tc \in 0..MaxThreads :
       Call(a, f, tc)
  \/ ProbeFailed
  \/ \E hw \in 0..MaxHw : ProbeLoaded(hw)
  \/ Launch
  \/ Launched
  \/ Join
  \/ JoinedAll
  \/ Return
  \/ \E w \in Workers, loaded \in BOOLEAN : WorkerLoad(w, loaded)
  \/ \E w \in Workers : WorkerRender(w)
  \/ \E w \in Workers, asserted \in BOOLEAN : WorkerRenderNull(w, asserted)
  \/ \E w \in Workers : WorkerComposite(w)
  \/ \E w \in Workers : WorkerEncodeOpen(w)
  \/ \E w \in Workers : WorkerEncodeThrow(w)
  \/ \E w \in Workers : WorkerEncodeOpenFails(w)
  \/ \E w \in Workers, killed \in BOOLEAN : WorkerWriteNull(w, killed)
  \/ \E w \in Workers : WorkerWrite(w)
  \/ \E w \in Workers : WorkerWriteError(w)

Spec == Init /\ [][Next]_vars

(***************************************************************************)
(* render() under fair scheduling, with render calls that may hang          *)
(***************************************************************************)

\* conversions that would produce more output frames are left out of the
\* fair runs
MaxFairOut == 2

\* line 165: renderSync does not return
WorkerRenderHangs(w) ==
  /\ Alive
  /\ wpc[w] = "render"
  /\ local_player[w] = "ok"
  /\ wpc' = [wpc EXCEPT ![w] = "hung"]
  /\ UNCHANGED <<mainVars, j, local_player, buffer, files>>
  /\ UNCHANGED ioVars
  /\ UNCHANGED compVars
  /\ UNCHANGED callVars

\* the steps of the thread that called render()
MainStep ==
  \/ ProbeFailed
  \/ \E hw \in 0..MaxHw : ProbeLoaded(hw)
  \/ Launch
  \/ Launched
  \/ Join
  \/ JoinedAll
  \/ Return

\* its steps from the launching loop on
DispatchStep == Launch \/ Launched \/ Join \/ JoinedAll \/ Return

\* the steps of the thread of worker w, but for a render call that returns
WorkerStep(w) ==
  \/ \E loaded \in BOOLEAN : WorkerLoad(w, loaded)
  \/ \E asserted \in BOOLEAN : WorkerRenderNull(w, asserted)
  \/ WorkerComposite(w)
  \/ WorkerEncodeOpen(w)
  \/ WorkerEncodeThrow(w)
  \/ WorkerEncodeOpenFails(w)
  \/ \E killed \in BOOLEAN : WorkerWriteNull(w, killed)
  \/ WorkerWrite(w)
  \/ WorkerWriteError(w)

NextFair ==
  \/ \E a \in Animations, f \in {0} \cup Rates, tc \in 0..MaxThreads :
       /\ pc = "Idle"
       /\ a.ok => Frames(a, f) <= MaxFairOut
       /\ Call(a, f, tc)
  \/ MainStep
  \/ \E w \in Workers : WorkerStep(w)
  \/ \E w \in Workers : WorkerRender(w)
  \/ \E w \in Workers : WorkerRenderHangs(w)

\* the condition under which WorkerRender(w) can be taken
RenderEnabled(w) == Alive /\ wpc[w] = "render" /\ local_player[w] = "ok"

\* weak fairness of WorkerRender(w), written out with its enabling
\* condition: a render call that does not hang returns
RenderFair(w) ==
  []<>(~RenderEnabled(w)) \/ []<><<WorkerRender(w)>>_vars

\* every thread that can take a step is scheduled in the end: the threads
\* are operating system threads.  Nothing is assumed of the probe
SpecFair ==
  /\ Init
  /\ [][NextFair]_vars
  /\ WF_vars(DispatchStep)
  /\ \A w \in Workers : WF_vars(WorkerStep(w))
  /\ \A w \in Workers : RenderFair(w)

(***************************************************************************)
(* The workers late in a long conversion, around output index 1000          *)
(***************************************************************************)

\* the animations of the long conversions have up to 1000 + MaxLong frames,
\* and the workers are followed from index 1000 - MaxLong on
MaxLong == 2

LongFrom == 1000 - MaxLong

LongAnimations ==
  [ok : {TRUE}, frames : (LongFrom + 1)..(1000 + MaxLong), rate : Rates]

\* the names of the files the workers can open from index LongFrom on (the
\* product of line 152 can come out above the frame count, so the loop can
\* admit one index more)
LongFileNames == {FileName(jj) : jj \in LongFrom..(1000 + MaxLong + 1)}

\* line 163: the first index from LongFrom on that worker w of tc reaches
LongIndex(w, tc) ==
  CHOOSE jj \in LongFrom..(LongFrom + tc - 1) : jj % tc = FirstIndex(w) % tc

\* render(a, fps = 0, tc) with every worker launched, each having written
\* its files below index LongFrom and standing at the loop condition with
\* its next index; the files below LongFrom are left out of the directory
LongInit ==
  \E a \in LongAnimations, tc \in 1..MaxThreads :
    /\ pc = "Running"
    /\ cache_counter = 1
    /\ lottie_data = a
    /\ fps = EffectiveFps(0, a.rate)
    /\ threads_count = ResolveThreads(tc, 0)
    /\ step = Step(a.rate, EffectiveFps(0, a.rate))
    /\ output_frame_count =
         OutputFrameCount(EffectiveFps(0, a.rate),
                          Duration(a.frames, a.rate))
    /\ i = tc
    /\ threads = [k \in 1..(2 * tc) |-> IF k <= tc THEN -1 ELSE k - tc - 1]
    /\ jn = NextJoinable(threads, 1)
    /\ j = [w \in Workers |-> IF w < tc THEN LongIndex(w, tc) ELSE 0]
    /\ wpc = [w \in Workers |-> IF w < tc THEN LoopEntry(j[w]) ELSE "none"]
    /\ local_player = [w \in Workers |-> IF w < tc THEN "ok" ELSE "none"]
    /\ buffer = [w \in Workers |->
                  IF w < tc
                  THEN [frame |-> SourceFrame(j[w] - tc, step), comp |-> TRUE]
                  ELSE NoBuffer]
    /\ files = [n \in LongFileNames |-> NoFile]
    /\ hardware_concurrency = -1
    /\ file_name = [w \in Workers |->
                     IF w < tc THEN SprintfName(j[w] - tc) ELSE <<>>]
    /\ out_file = [w \in Workers |-> "none"]
    /\ cbuf = <<>>
    /\ cwidth = 0
    /\ cheight = 0
    /\ chist = <<>>
    /\ rgb_buffer = <<>>
    /\ row_pointers = <<>>
    /\ png_rows = <<>>
    /\ CallersInit

\* line 170 with an index of four digits: sprintf writes the eight
\* characters and the terminating byte, nine bytes into `char file_name[8]`:
\* undefined behaviour.  Either the write past the array is caught or hits
\* memory the thread needs and the process is killed, or the byte past the
\* array does no harm and write_png is called with the four-digit name
WorkerNameOverflow(w, killed) ==
  /\ Alive
  /\ wpc[w] = "encode"
  /\ ~Fits(SprintfName(j[w]))
  /\ IF killed
     THEN /\ pc' = "Crashed"
          /\ UNCHANGED <<wpc, files, file_name, out_file>>
     ELSE /\ pc' = pc
          /\ file_name' = [file_name EXCEPT ![w] = SprintfName(j[w])]
          /\ files' = [files EXCEPT
                         ![FileName(j[w])] =
                            [state |-> "open", opens |-> @.opens + 1,
                             by |-> @.by \cup {w}, frame |-> -1,
                             comp |-> FALSE]]
          /\ out_file' = [out_file EXCEPT ![w] = "open"]
          /\ wpc' = [wpc EXCEPT ![w] = "write"]
  /\ UNCHANGED <<cache_counter, lottie_data, fps, threads_count, step,
                 output_frame_count, i, threads, jn, j, local_player, buffer,
                 hardware_concurrency>>
  /\ UNCHANGED compVars
  /\ UNCHANGED callVars

NextLong ==
  \/ Join
  \/ JoinedAll
  \/ Return
  \/ \E w \in Workers : WorkerRender(w)
  \/ \E w \in Workers : WorkerComposite(w)
  \/ \E w \in Workers : WorkerEncodeOpen(w)
  \/ \E w \in Workers : WorkerEncodeThrow(w)
  \/ \E w \in Workers : WorkerEncodeOpenFails(w)
  \/ \E w \in Workers, killed \in BOOLEAN : WorkerNameOverflow(w, killed)
  \/ \E w \in Workers, killed \in BOOLEAN : WorkerWriteNull(w, killed)
  \/ \E w \in Workers : WorkerWrite(w)
  \/ \E w \in Workers : WorkerWriteError(w)

SpecLong == LongInit /\ [][NextLong]_vars

(***************************************************************************)
(* render() called by several threads: lines 142-144 and 159-160            *)
(***************************************************************************)

\* the call of loadFromData that call number n of thread c makes for
\* `for` (-1: the probe, or the worker launched with that i) with the key
Load(c, n, for, key) == [caller |-> c, call |-> n, for |-> for, key |-> key]

\* number of calls of render() the threads in S have made or are in
RECURSIVE CallsMade(_)
CallsMade(S) ==
  IF S = {} THEN 0
  ELSE LET c == CHOOSE x \in S : TRUE
       IN  calls[c] + (IF caller_pc[c] = "idle" THEN 0 ELSE 1)
             + CallsMade(S \ {c})

\* line 143, `++cache_counter`: the static counter is read.  It is a plain
\* unsigned int, and nothing orders the calls of different threads
CallerEnter(c) ==
  /\ caller_pc[c] = "idle"
  /\ CallsMade(Callers) < MaxCalls
  /\ reg' = [reg EXCEPT ![c] = cache_counter]
  /\ caller_pc' = [caller_pc EXCEPT ![c] = "incr"]
  /\ UNCHANGED <<cache_counter_str, calls, launched, loads>>
  /\ UNCHANGED <<renderVars, compVars>>

\* line 143, `++cache_counter`: the value read plus one is stored (the
\* counter wraps at 2^32, far beyond the number of calls of a run of this
\* model)
CallerIncrement(c) ==
  /\ caller_pc[c] = "incr"
  /\ cache_counter' = reg[c] + 1
  /\ reg' = [reg EXCEPT ![c] = reg[c] + 1]
  /\ caller_pc' = [caller_pc EXCEPT ![c] = "str"]
  /\ UNCHANGED <<cache_counter_str, calls, launched, loads>>
  /\ UNCHANGED <<pc, lottie_data, fps, threads_count, step,
                 output_frame_count, i, threads, jn, wpc, j, local_player,
                 buffer, files>>
  /\ UNCHANGED ioVars
  /\ UNCHANGED compVars

\* line 143, `std::to_string(++cache_counter)`: the argument is the value
\* just stored, or the counter read once more
CallerToString(c, reread) ==
  /\ caller_pc[c] = "str"
  /\ cache_counter_str' =
       [cache_counter_str EXCEPT
          ![c] = to_string(IF reread THEN cache_counter ELSE reg[c])]
  /\ caller_pc' = [caller_pc EXCEPT ![c] = "probe"]
  /\ UNCHANGED <<reg, calls, launched, loads>>
  /\ UNCHANGED <<renderVars, compVars>>

\* lines 144-160: the probe is loaded with the key; then the lambda of
\* every worker captures cache_counter_str by value, and the worker loads
\* its handle with its copy.  All of it is local to the call (the calls
\* followed here are made with threads_count = MaxThreads)
CallerLoads(c) ==
  /\ caller_pc[c] = "probe"
  /\ loads' = loads \cup {Load(c, calls[c], for, cache_counter_str[c]) :
                             for \in -1..(MaxThreads - 1)}
  /\ launched' = [launched EXCEPT ![c] = MaxThreads]
  /\ caller_pc' = [caller_pc EXCEPT ![c] = "join"]
  /\ UNCHANGED <<reg, cache_counter_str, calls>>
  /\ UNCHANGED <<renderVars, compVars>>

\* lines 182-187: the workers are joined and render() returns
CallerReturn(c) ==
  /\ caller_pc[c] = "join"
  /\ calls' = [calls EXCEPT ![c] = calls[c] + 1]
  /\ caller_pc' = [caller_pc EXCEPT ![c] = "idle"]
  /\ UNCHANGED <<reg, cache_counter_str, launched, loads>>
  /\ UNCHANGED <<renderVars, compVars>>

NextCalls ==
  \/ \E c \in Callers : CallerEnter(c)
  \/ \E c \in Callers : CallerIncrement(c)
  \/ \E c \in Callers, reread \in BOOLEAN : CallerToString(c, reread)
  \/ \E c \in Callers : CallerLoads(c)
  \/ \E c \in Callers : CallerReturn(c)

SpecCalls == Init /\ [][NextCalls]_vars

(***************************************************************************)
(* apply_white_background called on buffers of sampled pixels               *)
(***************************************************************************)

CompositeInit ==
  /\ RenderInit
  /\ CallersInit
  /\ \E w \in 1..MaxPixels, h \in 1..MaxPixels :
       /\ w * h <= MaxPixels
       /\ cwidth = w
       /\ cheight = h
       /\ \E q \in 1..(w * h) : \E m \in PixelRows(w * h, q) :
            cbuf = m \o Slack
  /\ chist = <<>>
  /\ rgb_buffer = <<>>
  /\ row_pointers = <<>>
  /\ png_rows = <<>>

\* one call apply_white_background(buffer, width, height), on a buffer
\* that has not been handed to write_png yet
Composite ==
  /\ Len(chist) < MaxApply
  /\ rgb_buffer = <<>>
  /\ cbuf' = apply_white_background(cbuf, cwidth, cheight)
  /\ chist' = Append(chist, cbuf)
  /\ UNCHANGED <<cwidth, cheight, rgb_buffer, row_pointers, png_rows,
                 renderVars>>
  /\ UNCHANGED callVars

\* one call write_png(buffer, width, height, path) on the composited
\* buffer, as at lines 168-176, up to the image being stored
WritePng ==
  /\ Len(chist) = MaxApply
  /\ rgb_buffer = <<>>
  /\ rgb_buffer' = RepackPixels(cbuf, cwidth * cheight)
  /\ row_pointers' = RowPointers(cwidth, cheight)
  /\ png_rows' = StoredRows(RepackPixels(cbuf, cwidth * cheight),
                            RowPointers(cwidth, cheight), cwidth)
  /\ UNCHANGED <<cbuf, cwidth, cheight, chist, renderVars>>
  /\ UNCHANGED callVars

CompositeNext == Composite \/ WritePng

SpecComposite == CompositeInit /\ [][CompositeNext]_vars

TypeOK ==
  /\ pc \in {"Idle", "Probing", "Aborted", "Dispatching", "Running",
             "Joined", "Done", "Terminated", "Crashed"}
  /\ wpc \in [Workers -> {"none", "load", "render", "composite", "encode",
                          "write", "done", "threw", "hung"}]
  /\ \A w \in Workers : j[w] \in 0..(MaxOut + Max(MaxThreads, MaxHw))

(***************************************************************************)
(* Properties of write_png's re-packing                                     *)
(***************************************************************************)

\* C14: of a composited buffer (every alpha 255) write_png hands over
\* width * height * 3 bytes; the three bytes at offset 3 * (y * width + x)
\* are the first three bytes of the pixel at row y, column x, the alpha
\* byte is dropped, and row pointer y is at offset 3 * width * y.  The
\* composited 1x1 transparent frame is handed over, and stored, as
\* 255, 255, 255.
RepackContract ==
  rgb_buffer # <<>> =>
    /\ \A p \in 1..(cwidth * cheight) : cbuf[ColorBytes * p] = 255
    /\ Len(rgb_buffer) = 3 * cwidth * cheight
    /\ \A y \in 0..(cheight - 1) : \A x \in 0..(cwidth - 1) :
         \A c \in 1..3 :
           rgb_buffer[3 * (y * cwidth + x) + c]
             = cbuf[ColorBytes * (y * cwidth + x) + c]
    /\ Len(row_pointers) = cheight
    /\ \A y \in 0..(cheight - 1) : row_pointers[y + 1] = 3 * cwidth * y
    /\ (cwidth = 1 /\ cheight = 1 /\ chist[1][ColorBytes] = 0) =>
         /\ rgb_buffer = <<255, 255, 255>>
         /\ png_rows = << <<255, 255, 255>> >>

\* a buffer of two rows, one pixel transparent and one semi-transparent
\* before compositing, has been re-packed
RepackContractWitness ==
  /\ rgb_buffer # <<>>
  /\ cwidth = 1 /\ cheight = 2
  /\ row_pointers = <<0, 3>>
  /\ chist[1][ColorBytes] = 0
  /\ chist[1][2 * ColorBytes] \notin {0, 255}
  /\ rgb_buffer[1] = 255
  /\ rgb_buffer[4] # rgb_buffer[5]
  /\ rgb_buffer[4] = cbuf[5] /\ rgb_buffer[6] = cbuf[7]

(***************************************************************************)
(* Properties of render()                                                   *)
(***************************************************************************)

\* render() got past the probe: the frame parameters are computed
Probed == pc \notin {"Idle", "Probing", "Aborted"}

OutIndices == 0..MaxOut

\* the output indices the loop condition admits
Admitted == {jj \in OutIndices : LoopCondition(jj, output_frame_count)}

\* the output indices worker w has opened a file for
Processed(w) == {jj \in OutIndices : w \in files[FileName(jj)].by}

\* the output indices whose file is written and closed
Complete == {jj \in OutIndices : files[FileName(jj)].state = "complete"}

IsLaunched(w) == wpc[w] # "none"

\* C1: the workers' index sets partition the output indices.  No index is
\* processed by two workers or twice; worker w processes only admitted
\* indices congruent to w modulo the worker count; a worker that has left
\* its loop has processed all of those, so that once all workers are done
\* the union of their sets is exactly the set of admitted indices.
PartitionComplete ==
  /\ \A jj \in OutIndices :
       /\ files[FileName(jj)].opens <= 1
       /\ Cardinality(files[FileName(jj)].by) <= 1
  /\ \A w \in Workers : \A jj \in Processed(w) :
       jj \in Admitted /\ jj % threads_count = w
  /\ \A w \in Workers :
       wpc[w] = "done" =>
         Processed(w) = {jj \in Admitted : jj % threads_count = w}
  /\ (threads_count >= 1 /\ pc \in {"Joined", "Done"}) =>
       /\ UNION {Processed(w) : w \in Workers} = Admitted
       /\ \A jj \in Admitted : files[FileName(jj)].opens = 1

\* a conversion by two workers of at least three frames has returned
PartitionCompleteWitness ==
  /\ pc = "Done"
  /\ threads_count = 2
  /\ Cardinality(Admitted) >= 3
  /\ Processed(0) # {} /\ Processed(1) # {}
  /\ Cardinality(Processed(0)) >= 2

\* C2: render() returns successfully only when a file has been written for
\* every output index.
NoPartialSuccess ==
  pc = "Done" => \A jj \in Admitted : files[FileName(jj)].state = "complete"

\* C3: when render() has passed the joins, every launched worker has left
\* its loop, no file is still being written and every frame file of the
\* conversion is written.
JoinBarrier ==
  pc \in {"Joined", "Done"} =>
    /\ \A w \in Workers : IsLaunched(w) => wpc[w] = "done"
    /\ \A jj \in OutIndices : files[FileName(jj)].state # "open"
    /\ Admitted \subseteq Complete

\* the part of C3 that is about the launched workers only
JoinBarrierLaunched ==
  pc \in {"Joined", "Done"} =>
    /\ \A w \in Workers : IsLaunched(w) => wpc[w] = "done"
    /\ \A jj \in OutIndices : files[FileName(jj)].state # "open"
    /\ \A w \in Workers : IsLaunched(w) =>
         {jj \in Admitted : jj % threads_count = w} \subseteq Complete

NothingDone ==
  /\ threads = <<>>
  /\ \A w \in Workers :
       wpc[w] = "none" /\ buffer[w] = NoBuffer /\ local_player[w] = "none"
  /\ \A n \in FileNames : files[n] = NoFile

\* C4: when the probe load fails, render() throws at once: its next step is
\* the throw, and no worker is launched, nothing is rendered and no file is
\* written, before or after it; render() throws only for a failed probe.
ProbeFailureAborts ==
  /\ []((pc # "Idle" /\ ~lottie_data.ok) =>
          (pc \in {"Probing", "Aborted"} /\ NothingDone))
  /\ [](pc = "Aborted" => ~lottie_data.ok)
  /\ [][(pc = "Probing" /\ ~lottie_data.ok) => pc' = "Aborted"]_vars

ProbeFailureAbortsWitness == pc = "Aborted" /\ NothingDone

\* C5: when write_png has thrown in a worker, the error reaches the caller
\* of render() as an exception of that call.
WorkerFailureRaised ==
  (\E w \in Workers : wpc[w] = "threw") => pc = "Aborted"

One == RoundTo(DoubleBits, FromInt(1))

\* worker w is in its loop body, working on output index j[w]
InBody(w) == wpc[w] \in {"render", "composite", "encode", "write"}

\* worker w has rendered the frame for j[w] into its buffer
Rendered(w) ==
  wpc[w] \in {"composite", "encode", "write"} /\ buffer[w].frame # -1

\* C6: when the output rate equals the source rate (given, or by fps = 0),
\* step is 1, the workers work on the output indices 0..frames-1 only and
\* render source frame jj for index jj, and when render() returns with at
\* least one worker the files written are those of 0..frames-1.
PassThroughSampling ==
  (Probed /\ fps = lottie_data.rate) =>
    /\ step = One
    /\ \A w \in Workers : InBody(w) => j[w] < lottie_data.frames
    /\ \A w \in Workers : Rendered(w) => buffer[w].frame = j[w]
    /\ (pc = "Done" /\ threads_count >= 1) =>
         Complete = 0..(lottie_data.frames - 1)

\* C7: the frame rendered for index jj is round(jj * step); when the source
\* rate is k times the output rate and k divides the source frame count,
\* the workers work on the indices 0..frames/k-1 only and render source
\* frame k*jj for index jj, and when render() returns with at least one
\* worker the files written are those of 0..frames/k-1.
DownSampling ==
  /\ \A w \in Workers :
       Rendered(w) => buffer[w].frame = SourceFrame(j[w], step)
  /\ (Probed /\ lottie_data.rate % fps = 0
             /\ lottie_data.frames % (lottie_data.rate \div fps) = 0) =>
       LET k == lottie_data.rate \div fps
       IN  /\ \A w \in Workers : InBody(w) => j[w] < lottie_data.frames \div k
           /\ \A w \in Workers : Rendered(w) => buffer[w].frame = k * j[w]
           /\ (pc = "Done" /\ threads_count >= 1) =>
                Complete = 0..((lottie_data.frames \div k) - 1)

\* fps * frames / rate is not an integer
Fractional == (fps * lottie_data.frames) % lottie_data.rate # 0

ExactFloor == (fps * lottie_data.frames) \div lottie_data.rate

\* C8 as stated: with a fractional frame count the workers write floor(fps *
\* frames / rate) files in total.
FrameCountTruncated ==
  (pc = "Done" /\ threads_count >= 1 /\ Fractional) =>
    Cardinality(Complete) = ExactFloor

\* C8 amended: the loop admits index jj exactly when jj is below the count
\* rounded up, so a fractional remainder gives one frame more than the
\* floor; when render() returns with at least one worker, exactly these
\* files are written.
FrameCountRoundedUp ==
  Probed =>
    /\ Admitted = 0..(Ceil(output_frame_count) - 1)
    /\ Fractional => Cardinality(Admitted) = ExactFloor + 1
    /\ pc = "Done" =>
         Complete = (IF threads_count = 0 THEN {} ELSE Admitted)

FrameCountRoundedUpWitness ==
  /\ pc = "Done"
  /\ threads_count = 2
  /\ Fractional
  /\ Cardinality(Complete) = ExactFloor + 1
  /\ ExactFloor >= 1

\* the workers whose thread has been started
LaunchedWorkers == {w \in Workers : IsLaunched(w)}

\* the launching loop has ended and the process has not been killed
LaunchEnded == pc \in {"Running", "Joined", "Done"}

\* C11: the number of workers is the threads_count passed when that is
\* positive, and what the host reports when 0 is passed.  The launching loop
\* starts the workers 0, 1, ... in turn, and when it has ended the workers
\* are exactly 0..count-1, each run by one thread of the vector.
WorkerCountResolved ==
  /\ [][(pc = "Probing" /\ pc' = "Dispatching") =>
         /\ threads_count > 0 =>
              threads_count' = threads_count /\ hardware_concurrency' = -1
         /\ threads_count = 0 =>
              threads_count' = hardware_concurrency'
                /\ hardware_concurrency' >= 0]_vars
  /\ [](pc = "Dispatching" => LaunchedWorkers = 0..(i - 1))
  /\ [](LaunchEnded =>
          /\ LaunchedWorkers = 0..(threads_count - 1)
          /\ Cardinality(LaunchedWorkers) = threads_count
          /\ \A w \in LaunchedWorkers :
               Cardinality({k \in DOMAIN threads : threads[k] = w}) = 1
          /\ \A k \in DOMAIN threads :
               Joinable(threads[k]) => threads[k] \in LaunchedWorkers)

\* 0 was passed on a host reporting 2, and two workers have run their loops
WorkerCountResolvedWitness ==
  /\ pc = "Done"
  /\ hardware_concurrency = 2
  /\ LaunchedWorkers = {0, 1}
  /\ \A w \in LaunchedWorkers : wpc[w] = "done" /\ Processed(w) # {}

\* jj written with three decimal digits, then ".png"
ThreeDigitName(jj) ==
  <<DigitChars[((jj \div 100) % 10) + 1], DigitChars[((jj \div 10) % 10) + 1],
    DigitChars[(jj % 10) + 1], ".", "p", "n", "g">>

\* C12: the file of output index jj is named by jj in three digits and
\* ".png", different indices have different names, a worker writing has
\* its own index's file open and is the only one that ever opened it, no
\* file is opened twice, and a written file is never touched again.
FileWrittenOnce ==
  /\ [](\A w \in Workers :
          out_file[w] = "open" =>
            /\ file_name[w] = ThreeDigitName(j[w])
            /\ \A kk \in OutIndices \ {j[w]} :
                 SprintfName(kk) # file_name[w] /\ FileName(kk) # FileName(j[w])
            /\ files[FileName(j[w])].state = "open"
            /\ files[FileName(j[w])].by = {w})
  /\ [](\A n \in FileNames :
          files[n].opens <= 1 /\ Cardinality(files[n].by) <= 1)
  /\ [](\A w \in Workers : \A v \in Workers :
          (v # w /\ out_file[w] # "none" /\ out_file[v] # "none") =>
            file_name[v] # file_name[w])
  /\ [][\A n \in FileNames :
          /\ files[n].state = "complete" => files'[n] = files[n]
          /\ files'[n].opens <= files[n].opens + 1]_vars

\* two workers have written the files 000, 001 and 002 and render() has
\* returned
FileWrittenOnceWitness ==
  /\ pc = "Done"
  /\ threads_count = 2
  /\ \A jj \in 0..2 :
       /\ files[FileName(jj)].state = "complete"
       /\ files[FileName(jj)].opens = 1
       /\ files[FileName(jj)].by = {jj % 2}
  /\ file_name[0] = <<"0", "0", "2", ".", "p", "n", "g">>
  /\ file_name[1] = <<"0", "0", "1", ".", "p", "n", "g">>

\* C13: when fopen has returned null in a worker's write_png, write_png has
\* thrown: it is not going on to png_init_io, png_write_png and fclose
\* with the null handle.
OpenFailureReported ==
  \A w \in Workers : out_file[w] = "null" => wpc[w] = "threw"

\* the steps a worker takes, as pairs of places
WorkerOrder ==
  {<<"none", "load">>, <<"load", "render">>, <<"load", "done">>,
   <<"render", "composite">>, <<"composite", "encode">>,
   <<"encode", "write">>, <<"encode", "threw">>, <<"write", "render">>,
   <<"write", "done">>, <<"write", "threw">>}

\* C15: in every worker the steps of an index come in the order render,
\* composite, encode, and the index and the buffer change nowhere else: at
\* the composite step the buffer holds the rendering of source frame
\* round(j * step), at the encode and write steps its composited form, and
\* every written file jj holds the composited rendering of source frame
\* round(jj * step).
PipelineOrder ==
  /\ [](\A w \in Workers :
          /\ wpc[w] = "composite" =>
               buffer[w] = [frame |-> Round(FMul(DoubleBits, j[w], step)),
                            comp |-> FALSE]
          /\ (wpc[w] \in {"encode", "write"}) =>
               buffer[w] = [frame |-> Round(FMul(DoubleBits, j[w], step)),
                            comp |-> TRUE])
  /\ [](\A jj \in Complete :
          /\ files[FileName(jj)].frame = Round(FMul(DoubleBits, jj, step))
          /\ files[FileName(jj)].comp)
  /\ [][\A w \in Workers :
          /\ wpc'[w] # wpc[w] => <<wpc[w], wpc'[w]>> \in WorkerOrder
          /\ j'[w] # j[w] => wpc[w] \in {"load", "write"}
          /\ buffer'[w] # buffer[w] =>
               wpc[w] \in {"load", "render", "composite"}]_vars

\* one worker has written file 001 from source frame 2 into the buffer it
\* used for file 000 before
PipelineOrderWitness ==
  /\ pc = "Done"
  /\ threads_count = 1
  /\ files[FileName(0)].state = "complete" /\ files[FileName(0)].frame = 0
  /\ files[FileName(1)].state = "complete" /\ files[FileName(1)].frame = 2
  /\ files[FileName(1)].comp

\* C17: every source frame a worker has asked renderSync for is one of the
\* animation's frames 0..frames-1.
SourceFrameInRange ==
  \A w \in Workers :
    Rendered(w) =>
      (0 <= buffer[w].frame /\ buffer[w].frame <= lottie_data.frames - 1)

\* C19: a worker that is in its loop body, at the renderSync call or past
\* it, holds a handle that was loaded.
HandleValid ==
  \A w \in Workers : InBody(w) => local_player[w] = "ok"

\* C18: what a worker has formatted into file_name fits the array together
\* with its terminating byte, and no worker is in its loop body with an
\* index of 1000 or more.
FileNameBound ==
  \A w \in Workers :
    /\ Fits(file_name[w])
    /\ InBody(w) => j[w] < 1000

\* C20: two calls of loadFromData are given the same cache key exactly when
\* they are made for the same call of render(): different calls of render(),
\* one after the other or at the same time on different threads, have
\* different keys, and the probe and the workers of one call have one key.
CacheKeyPerCall ==
  \A x, y \in loads :
    x.key = y.key <=> (x.caller = y.caller /\ x.call = y.call)

\* a call of some worker did not return: it killed the process, or hangs
CallFailed == ~Alive \/ \E w \in Workers : wpc[w] = "hung"

\* C16: once the probe has succeeded, unless a call of some worker does not
\* return, render() returns, and it gets past the joins only when every
\* worker's loop has ended; and a worker
\* whose render call hangs stays there, and with it render() never gets
\* past the joins, whatever the other workers do.
DispatcherCompletes ==
  /\ (pc = "Dispatching") ~> (CallFailed \/ pc = "Done")
  /\ [](Alive /\ pc \in {"Joined", "Done"} =>
          \A w \in Workers : wpc[w] \in {"none", "done"})
  /\ [](\A w \in Workers : wpc[w] = "hung" => pc \notin {"Joined", "Done"})
  /\ [][\A w \in Workers : wpc[w] = "hung" => wpc'[w] = "hung"]_vars

\* the render call of worker 0 hangs, worker 1 has written its file and
\* ended, and render() is waiting in the joins
DispatcherCompletesWitness ==
  /\ pc = "Running"
  /\ wpc[0] = "hung"
  /\ wpc[1] = "done"
  /\ Processed(1) # {}
  /\ jn = 3

(***************************************************************************)
(* Properties of apply_white_background                                     *)
(***************************************************************************)

\* the pixels of a buffer
PixelIndices == 1..(cwidth * cheight)

\* pixel p of memory mem
Pixel(mem, p) == SubSeq(mem, ColorBytes * (p - 1) + 1, ColorBytes * p)

\* src_c * (alpha / 255) + 255 * (1 - alpha / 255) in float arithmetic,
\* converted to a byte
ClaimedBlend(c, a) ==
  Trunc(FAdd(FloatBits,
             FMul(FloatBits, c, FDiv(FloatBits, a, 255)),
             FMul(FloatBits, 255,
                  FSub(FloatBits, FromInt(1), FDiv(FloatBits, a, 255)))))

\* the same blend in exact arithmetic, rounded down
ExactBlend(c, a) == (c * a + 255 * (255 - a)) \div 255

\* what a call made of memory before
Composited(before, after) ==
  /\ Len(after) = Len(before)
  /\ \A p \in PixelIndices :
       LET old == Pixel(before, p)
           new == Pixel(after, p)
       IN  /\ new[4] = 255
           /\ old[4] = 0 => new = <<255, 255, 255, 255>>
           /\ old[4] = 255 => new = old
           /\ (0 < old[4] /\ old[4] < 255) =>
                \A c \in 1..3 :
                  /\ new[c] = ClaimedBlend(old[c], old[4])
                  /\ new[c] \in {ExactBlend(old[c], old[4]) - 1,
                                 ExactBlend(old[c], old[4])}
  /\ \A k \in (cwidth * cheight * ColorBytes + 1)..Len(before) :
       after[k] = before[k]

\* C9: after every call each pixel is opaque, a transparent pixel is white,
\* an opaque pixel is unchanged, every channel of a semi-transparent pixel
\* is the blend with white, and the memory after the width*height*4 bytes
\* is unchanged.
CompositeContract ==
  chist # <<>> => Composited(chist[Len(chist)], cbuf)

\* one call has been made on a buffer with a transparent coloured pixel and
\* a semi-transparent pixel, followed by a byte that is not 255
CompositeContractWitness ==
  /\ Len(chist) = 1
  /\ \E p \in PixelIndices :
       Pixel(chist[1], p)[4] = 0 /\ Pixel(chist[1], p)[1] # 255
  /\ \E p \in PixelIndices :
       /\ Pixel(chist[1], p)[4] \notin {0, 255}
       /\ Pixel(cbuf, p) # Pixel(chist[1], p)
  /\ cbuf[Len(cbuf)] # 255

AllOpaque(mem) == \A p \in PixelIndices : Pixel(mem, p)[4] = 255

\* C10: a call on a buffer whose pixels are all opaque changes nothing, so
\* a second call leaves what the first call made.
CompositeIdempotent ==
  /\ (chist # <<>> /\ AllOpaque(chist[Len(chist)])) =>
       cbuf = chist[Len(chist)]
  /\ Len(chist) >= 2 => cbuf = chist[2]

\* two calls have been made on a buffer that the first call changed
CompositeIdempotentWitness ==
  /\ Len(chist) = 2
  /\ chist[1] # chist[2]
  /\ \E p \in PixelIndices : Pixel(chist[1], p)[4] \notin {0, 255}
  /\ cbuf = chist[2]

====
